---- MODULE Spec2Model ----
(***************************************************************************)
(* Drawsy LLM service: the AIService fallback content selection            *)
(* (app/services/ai_service.py) and the HTTP handlers in front of it       *)
(* (app/main.py, app/models.py).                                           *)
(*                                                                         *)
(* One service call is in progress at a time: pc = "idle" between calls,   *)
(* "cycle" while generate_multiple_words runs its cycling while-loop, and  *)
(* "done" when the call has returned or raised.  Python strings are TLA+   *)
(* strings; lists are sequences; dicts are functions whose DOMAIN is the   *)
(* key set; random.choice / random.sample and the remote LLM's answer are  *)
(* nondeterministic choices.                                               *)
(***************************************************************************)
EXTENDS Integers, Sequences, FiniteSets, TLC

VARIABLES
    word_bank,           \* self.word_bank
    funny_responses,     \* self.funny_responses
    openrouter_api_key,  \* TRUE iff self.openrouter_api_key is set
    pc, op,              \* position of the call in progress, and which call
    topic, count,        \* arguments of generate_multiple_words / count of chat
    words, available_words, result,   \* locals of generate_multiple_words
    source,              \* "llm" or "fallback": which path produced the value
    raised,              \* name of the exception that left the call, or ""
    guess, correct_word, base_response, response,  \* generate_funny_response
    message, moods, llm_replies, context, suggestions, \* generate_chat_suggestion
    request,             \* the request body an HTTP handler was given
    http_status,         \* status of the handler's answer, 0 when none ran
    llm_words,           \* what _generate_openrouter_multiple_words returned
    available_ref,       \* key of the bank list available_words is, "" if its own
    ai_words, fallback_words,        \* locals of generate_words_by_topic
    selected_topic, selected_word    \* locals of generate_word_suggestion

vars == <<word_bank, funny_responses, openrouter_api_key, pc, op, topic, count,
          words, available_words, result, source, raised, guess, correct_word,
          base_response, response, message, moods, llm_replies, context,
          suggestions, request, http_status, llm_words, available_ref,
          ai_words, fallback_words, selected_topic, selected_word>>

(***************************************************************************)
(* Bounds of the model.                                                    *)
(***************************************************************************)
\* Number of words kept of each topic's list of the word bank.
PoolLen == 2
\* Largest count a caller asks for (larger than PoolLen: the cycling branch).
MaxCount == 3

(***************************************************************************)
(* Python built-ins.                                                       *)
(***************************************************************************)
Range(s) == {s[i] : i \in 1..Len(s)}

Min(a, b) == IF a < b THEN a ELSE b

\* s[:n] for n >= 0
Prefix(s, n) == SubSeq(s, 1, Min(n, Len(s)))

\* x in list
InList(x, s) == \E i \in 1..Len(s) : s[i] = x

\* list.remove(x): drops the first occurrence of x
ListRemove(s, x) ==
    LET i == CHOOSE j \in 1..Len(s) : s[j] = x /\ \A k \in 1..(j - 1) : s[k] # x
    IN  SubSeq(s, 1, i - 1) \o SubSeq(s, i + 1, Len(s))

\* dict.get(key, default)
DictGet(d, key, default) == IF key \in DOMAIN d THEN d[key] ELSE default

UpperChars == "ABCDEFGHIJKLMNOPQRSTUVWXYZ"
LowerChars == "abcdefghijklmnopqrstuvwxyz"

CharAt(s, i) == SubSeq(s, i, i)

\* The small letter of every ASCII capital.
LowerTable ==
    [c \in {CharAt(UpperChars, i) : i \in 1..Len(UpperChars)} |->
        CharAt(LowerChars, CHOOSE i \in 1..Len(UpperChars) : CharAt(UpperChars, i) = c)]

\* str.lower() of one character: ASCII capitals map to their small letter
LowerChar(c) == IF c \in DOMAIN LowerTable THEN LowerTable[c] ELSE c

\* str.lower()
RECURSIVE lower(_)
lower(s) == IF Len(s) = 0 THEN "" ELSE LowerChar(CharAt(s, 1)) \o lower(SubSeq(s, 2, Len(s)))

\* sub in s, for strings
Contains(sub, s) ==
    \E i \in 1..(Len(s) - Len(sub) + 1) : SubSeq(s, i, i + Len(sub) - 1) = sub

\* the sequences whose i-th element is drawn from sets[i]
RECURSIVE SeqsFrom(_)
SeqsFrom(sets) ==
    IF Len(sets) = 0 THEN {<<>>}
    ELSE {<<x>> \o r : x \in Head(sets), r \in SeqsFrom(Tail(sets))}

(***************************************************************************)
(* AIService.__init__: the word bank and the funny response templates.     *)
(***************************************************************************)
\* The lists of the topics the model keeps, as written in __init__.
WordBankSource ==
    [Animals |-> <<"cat", "dog", "fish", "bird", "cow", "pig", "horse", "sheep",
                   "elephant", "giraffe", "lion", "tiger", "bear", "rabbit", "mouse",
                   "frog", "snake", "turtle", "duck", "chicken", "butterfly", "bee">>,
     Objects |-> <<"car", "house", "book", "chair", "table", "phone", "cup", "key",
                   "clock", "lamp", "door", "window", "bed", "hat", "shoe", "bag",
                   "pen", "pencil", "camera", "guitar", "ball", "box">>]

\* The length of the lists of one more bank, long enough for the five words
\* the words-by-topic handler asks for (every list of __init__ is).
LongPoolLen == 5

\* A bank holding the first a words of Animals and the first o words of Objects.
BankOf(a, o) ==
    [t \in {"Animals", "Objects"} |->
        Prefix(WordBankSource[t], IF t = "Animals" THEN a ELSE o)]

\* A bank without the "Objects" key (generate_multiple_words reads it with
\* word_bank.get("Objects", [])).
BankWithoutObjects(a) == [t \in {"Animals"} |-> Prefix(WordBankSource[t], a)]

\* The banks a service instance is constructed with: every topic's list is
\* duplicate-free, as in __init__; the sampler only depends on the resolved list.
Banks ==
    {BankOf(a, o) : a \in 1..PoolLen, o \in 0..PoolLen}
    \cup {BankWithoutObjects(PoolLen)}
    \cup {BankOf(LongPoolLen, LongPoolLen)}

\* The trailing emoji of the sixth template is written "(?)" here.
FunnyResponsesSource ==
    << "Close! But not quite there yet!",
       "Nice try! Keep those creative juices flowing!",
       "Ooh, interesting guess! But let's try again!",
       "You're thinking outside the box! I like it!",
       "Hmm, that's a unique perspective!",
       "Getting warmer... or maybe colder? (?)",
       "I see where you're going with that!",
       "Creative thinking! But let's aim a bit differently!",
       "That would make for an interesting drawing too!",
       "Points for creativity! Now let's get the right answer!" >>

(***************************************************************************)
(* Inputs.                                                                 *)
(***************************************************************************)
\* Topic arguments: two keys of the bank and one that is no key.
Topics == {"Animals", "Objects", "Vehicles"}

Counts == 0..MaxCount

\* What the remote model's answer is cleaned to (lines 341-347 keep distinct
\* alphabetic words of 3..10 letters), besides a failed request.
LLMWords == <<"zebra", "panda", "koala", "otter", "camel", "whale">>

LLMWordLists == {Prefix(LLMWords, n) : n \in 0..(MaxCount + 1)}

\* Guesses and correct words of generate_funny_response; "box" and "hat" are
\* words of the "Objects" list.
Guesses == {"", "a", "ele", "ELE", "cat", "elephantine"}

CorrectWords == {"elephant", "Elephantine", "box", "hat"}

\* What the remote model answers to a funny-response request; "" stands for
\* both falsy outcomes of line 84 (None after a failure, an empty content).
LLMFunnyReplies == {"", "So close, yet so far!"}

\* Chat messages.
Messages ==
    {"let's draw a sketch", "what is this, I think it's...", "hello there",
     "I GUESS it is a Line", "Looks Like a cat", "draw something"}

\* Python's None, where a string is optional.
NoneStr == "<None>"

\* The moods argument: None (the default list is used) or a list.
MoodsArgs ==
    {[is_none |-> TRUE, list |-> <<>>],
     [is_none |-> FALSE, list |-> <<>>],
     [is_none |-> FALSE, list |-> <<"encouraging", "curious">>],
     [is_none |-> FALSE, list |-> <<"playful", "sarcastic">>]}

\* The request bodies the ChatSuggestionRequest schema accepts.
ChatSuggestionRequests == [message : Messages, currentWord : {NoneStr, "cat"}]

NoRequest == [message |-> "", currentWord |-> NoneStr]

Init ==
    /\ word_bank \in Banks
    /\ funny_responses = FunnyResponsesSource
    /\ openrouter_api_key \in BOOLEAN
    /\ pc = "idle"
    /\ op = "none"
    /\ topic = ""
    /\ count = 0
    /\ words = <<>>
    /\ available_words = <<>>
    /\ result = <<>>
    /\ source = ""
    /\ raised = ""
    /\ guess = ""
    /\ correct_word = ""
    /\ base_response = ""
    /\ response = ""
    /\ message = ""
    /\ moods = <<>>
    /\ llm_replies = <<>>
    /\ context = ""
    /\ suggestions = <<>>
    /\ request = NoRequest
    /\ http_status = 0
    /\ llm_words = <<>>
    /\ available_ref = ""
    /\ ai_words = <<>>
    /\ fallback_words = <<>>
    /\ selected_topic = ""
    /\ selected_word = ""

(***************************************************************************)
(* generate_multiple_words                                                 *)
(***************************************************************************)
\* _generate_openrouter_multiple_words after the request: cleaned is the
\* cleaned word list, padded from the bank and cut to count; a failed
\* request returns [].
OpenrouterMultipleWords(bank, t, c, failed, cleaned) ==
    IF failed THEN <<>>
    ELSE LET bank_words == DictGet(bank, t, DictGet(bank, "Objects", <<>>))
             RECURSIVE Pad(_, _)
             Pad(ws, i) ==
                 IF i > Len(bank_words) \/ Len(ws) >= c THEN ws
                 ELSE Pad(IF InList(bank_words[i], ws) THEN ws
                          ELSE Append(ws, bank_words[i]), i + 1)
         IN  Prefix(IF Len(cleaned) < c THEN Pad(cleaned, 1) ELSE cleaned, c)

\* The mutant of ResolvePool: an unknown topic falls back to "Animals".
ResolvePoolAnimals(bank, t) ==
    IF t \in DOMAIN bank THEN bank[t] ELSE DictGet(bank, "Animals", <<>>)

\* The candidate pool: the topic's list, or the "Objects" list for an unknown topic.
ResolvePool(bank, t) ==
    IF t \in DOMAIN bank THEN bank[t] ELSE DictGet(bank, "Objects", <<>>)

\* The mutant of RandomSample: k draws with replacement (random.choices).
RandomChoices(population, k) ==
    {[i \in 1..k |-> population[p[i]]] : p \in [1..k -> 1..Len(population)]}

\* random.sample(population, k), 0 <= k <= len(population): every sequence of
\* k elements taken at pairwise different positions.
RandomSample(population, k) ==
    {[i \in 1..k |-> population[p[i]]] :
        p \in {q \in [1..k -> 1..Len(population)] :
                  \A i, j \in 1..k : i # j => q[i] # q[j]}}

\* The word-bank path up to the while-loop: either the sample is returned, or
\* the loop is entered with an empty result and a copy of the pool.
FallbackStart(bank, t, c) ==
    LET pool == ResolvePool(bank, t)
    IN  IF Len(pool) >= c
        THEN {[pc |-> "done", words |-> pool, available_words |-> <<>>, result |-> r] :
                 r \in RandomSample(pool, c)}
        ELSE {[pc |-> "cycle", words |-> pool, available_words |-> pool, result |-> <<>>]}

\* The mutant of AcceptsLLMWords: the remote list is returned unchecked.
AcceptsLLMWordsAlways(llm, c) == TRUE

\* "if response and len(response) == count": the remote list is returned.
AcceptsLLMWords(llm, c) == Len(llm) > 0 /\ Len(llm) = c

\* The key of the bank list that "words" is bound to (no copy is made), ""
\* when it is the fresh [] of word_bank.get("Objects", []).
PoolRef(bank, t) ==
    IF t \in DOMAIN bank THEN t
    ELSE IF "Objects" \in DOMAIN bank THEN "Objects" ELSE ""

\* The mutant of CopyRef: the working list is the bank's list, not a copy.
CopyRefAlias(ref) == ref

\* words.copy(): the copy is a list of its own.
CopyRef(ref) == ""

\* A write through a list: it changes the bank when the list is one of the
\* bank's lists.
Store(bank, ref, value) ==
    IF ref = "" THEN bank ELSE [bank EXCEPT ![ref] = value]

\* The body of generate_multiple_words(t, c) on the bank, up to its return
\* or its entry into the while-loop.
StartMultipleWords(bank, t, c, failed, cleaned) ==
    /\ topic' = t
    /\ count' = c
    /\ raised' = ""
    /\ LET llm == IF openrouter_api_key
                  THEN OpenrouterMultipleWords(bank, t, c, failed, cleaned)
                  ELSE <<>>
       IN  /\ llm_words' = llm
           /\ IF openrouter_api_key /\ AcceptsLLMWords(llm, c)
              THEN /\ pc' = "done"
                   /\ source' = "llm"
                   /\ result' = llm
                   /\ words' = <<>>
                   /\ available_words' = <<>>
                   /\ available_ref' = ""
              ELSE /\ source' = "fallback"
                   /\ \E st \in FallbackStart(bank, t, c) :
                         /\ pc' = st.pc
                         /\ words' = st.words
                         /\ available_words' = st.available_words
                         /\ result' = st.result
                         /\ available_ref' = IF st.pc = "cycle"
                                             THEN CopyRef(PoolRef(bank, t)) ELSE ""

generate_multiple_words(t, c, failed, cleaned) ==
    /\ pc = "idle"
    /\ op' = "generate_multiple_words"
    /\ StartMultipleWords(word_bank, t, c, failed, cleaned)
    /\ UNCHANGED <<word_bank, funny_responses, openrouter_api_key, guess,
                   correct_word, base_response, response, message, moods,
                   llm_replies, context, suggestions, request, http_status,
                   ai_words, fallback_words, selected_topic, selected_word>>

\* One test of the while condition and, when it holds, one pass of its body.
CycleStep ==
    /\ pc = "cycle"
    /\ IF Len(result) >= count
       THEN /\ pc' = "done"
            /\ result' = Prefix(result, count)
            /\ UNCHANGED <<word_bank, words, available_words, available_ref, raised>>
       ELSE LET reset == Len(available_words) = 0
                pool == IF reset THEN words ELSE available_words
                ref == IF reset THEN CopyRef(PoolRef(word_bank, topic))
                       ELSE available_ref
            IN  IF Len(pool) = 0
                THEN /\ pc' = "done"
                     /\ raised' = "IndexError"
                     /\ available_words' = pool
                     /\ available_ref' = ref
                     /\ UNCHANGED <<word_bank, words, result>>
                ELSE \E i \in 1..Len(pool) :
                        /\ available_words' = ListRemove(pool, pool[i])
                        /\ available_ref' = ref
                        /\ word_bank' = Store(word_bank, ref, available_words')
                        /\ words' = IF ref # "" /\ ref = PoolRef(word_bank, topic)
                                    THEN available_words' ELSE words
                        /\ result' = IF InList(pool[i], result) THEN result
                                     ELSE Append(result, pool[i])
                        /\ UNCHANGED <<pc, raised>>
    /\ UNCHANGED <<funny_responses, openrouter_api_key, op, topic, count, source,
                   guess, correct_word, base_response, response, message, moods,
                   llm_replies, context, suggestions, request, http_status,
                   llm_words, ai_words, fallback_words, selected_topic,
                   selected_word>>

(***************************************************************************)
(* generate_word_suggestion                                                *)
(***************************************************************************)
\* The topic argument: None (omitted) or a string.
TopicArgs == Topics \cup {NoneStr}

\* The truth value of an optional string: None and "" are false.
Truthy(t) == t # NoneStr /\ t # ""

\* The content the remote model answers to a word request.
LLMWordContents == {"Zebra"}

\* The mutant of WordSuggestionFallback: the word is drawn from any list of
\* the bank, not from the list of the selected topic.
WordSuggestionFallbackAnyList(bank, t) ==
    LET selected == IF Truthy(t) /\ t \in DOMAIN bank THEN {t} ELSE DOMAIN bank
    IN  UNION {{[topic |-> k, words |-> bank[j], word |-> w, raised |-> ""] :
                   k \in selected, w \in Range(bank[j])} :
               j \in DOMAIN bank}

\* The word-bank path of generate_word_suggestion: the topic when it is a
\* key of the bank, otherwise random.choice of the keys; then random.choice
\* of that topic's list, which raises IndexError on an empty list.
WordSuggestionFallback(bank, t) ==
    LET selected == IF Truthy(t) /\ t \in DOMAIN bank THEN {t} ELSE DOMAIN bank
    IN  UNION {IF Len(bank[k]) = 0
               THEN {[topic |-> k, words |-> bank[k], word |-> "", raised |-> "IndexError"]}
               ELSE {[topic |-> k, words |-> bank[k], word |-> w, raised |-> ""] :
                        w \in Range(bank[k])} :
               k \in selected}

generate_word_suggestion(t, failed, content) ==
    /\ pc = "idle"
    /\ pc' = "done"
    /\ op' = "generate_word_suggestion"
    /\ topic' = t
    /\ IF openrouter_api_key /\ Truthy(t) /\ ~failed
       THEN /\ source' = "llm"
            /\ selected_topic' = t
            /\ selected_word' = lower(content)
            /\ raised' = ""
            /\ UNCHANGED words
       ELSE /\ source' = "fallback"
            /\ \E st \in WordSuggestionFallback(word_bank, t) :
                  /\ selected_topic' = st.topic
                  /\ words' = st.words
                  /\ selected_word' = st.word
                  /\ raised' = st.raised
    /\ UNCHANGED <<word_bank, funny_responses, openrouter_api_key, count,
                   available_words, result, guess, correct_word, base_response,
                   response, message, moods, llm_replies, context, suggestions,
                   request, http_status, llm_words, available_ref, ai_words,
                   fallback_words>>

(***************************************************************************)
(* generate_funny_response                                                 *)
(***************************************************************************)
\* The mutant of FunnySuffix: the overlap rule is tested before the two
\* length rules.
FunnySuffixOverlapFirst(g, cw) ==
    IF Contains(lower(g), lower(cw)) THEN " You've got some letters right!"
    ELSE IF Len(g) > 10 THEN " That's quite a long word you're thinking of!"
    ELSE IF Len(g) = 1 THEN " Just one letter? Let's think bigger!"
    ELSE ""

\* What the if/elif chain of the fallback appends to the base response.
FunnySuffix(g, cw) ==
    IF Len(g) > 10 THEN " That's quite a long word you're thinking of!"
    ELSE IF Len(g) = 1 THEN " Just one letter? Let's think bigger!"
    ELSE IF Contains(lower(g), lower(cw)) THEN " You've got some letters right!"
    ELSE ""

generate_funny_response(g, cw, reply, i) ==
    /\ pc = "idle"
    /\ pc' = "done"
    /\ op' = "generate_funny_response"
    /\ guess' = g
    /\ correct_word' = cw
    /\ raised' = ""
    /\ IF openrouter_api_key /\ reply # ""
       THEN /\ source' = "llm"
            /\ base_response' = ""
            /\ response' = reply
       ELSE /\ source' = "fallback"
            /\ base_response' = funny_responses[i]
            /\ response' = funny_responses[i] \o FunnySuffix(g, cw)
    /\ UNCHANGED <<word_bank, funny_responses, openrouter_api_key, topic, count,
                   words, available_words, result, message, moods, llm_replies,
                   context, suggestions, request, http_status, llm_words,
                   available_ref, ai_words, fallback_words, selected_topic,
                   selected_word>>

(***************************************************************************)
(* generate_chat_suggestion and _get_fallback_suggestion                   *)
(***************************************************************************)
encouraging_responses ==
    [drawing_progress |-> <<"Keep up the amazing drawing!", "You're doing great!", "Nice work so far!">>,
     guessing |-> <<"Great guess!", "Keep trying!", "You're on the right track!">>,
     general |-> <<"Looking good!", "Great effort!", "Keep it up!">>]

curious_responses ==
    [drawing_progress |-> <<"Interesting shape!", "What could that be?", "I wonder what you're creating?">>,
     guessing |-> <<"Hmm, what is it?", "That's intriguing!", "Curious to see more!">>,
     general |-> <<"What's happening here?", "This looks interesting!", "Tell me more!">>]

playful_responses ==
    [drawing_progress |-> <<"Ooh, mystery drawing!", "Plot twist incoming!", "This is getting exciting!">>,
     guessing |-> <<"The suspense is real!", "Fun guessing game!", "What a puzzle!">>,
     general |-> <<"Fun times ahead!", "This is awesome!", "Love the energy!">>]

DrawingKeywords == {"draw", "drawing", "sketch", "line", "shape"}

GuessingKeywords == {"guess", "think", "looks like", "is it", "what is"}

\* The mutant of Context: the guessing keywords are tested first.
ContextGuessingFirst(msg) ==
    LET message_lower == lower(msg)
    IN  IF \E w \in GuessingKeywords : Contains(w, message_lower) THEN "guessing"
        ELSE IF \E w \in DrawingKeywords : Contains(w, message_lower)
             THEN "drawing_progress"
        ELSE "general"

\* The context _get_fallback_suggestion determines from the message.
Context(msg) ==
    LET message_lower == lower(msg)
    IN  IF \E w \in DrawingKeywords : Contains(w, message_lower) THEN "drawing_progress"
        ELSE IF \E w \in GuessingKeywords : Contains(w, message_lower) THEN "guessing"
        ELSE "general"

\* The mutant of FallbackResponses: an unrecognised mood gets the curious list.
FallbackResponsesCurious(ctx, mood) ==
    IF mood = "encouraging" THEN encouraging_responses[ctx]
    ELSE IF mood = "curious" THEN curious_responses[ctx]
    ELSE IF mood = "playful" THEN playful_responses[ctx]
    ELSE curious_responses["general"]

\* The list _get_fallback_suggestion draws its answer from, given the
\* context it determined from the message.
FallbackResponses(ctx, mood) ==
    IF mood = "encouraging" THEN encouraging_responses[ctx]
    ELSE IF mood = "curious" THEN curious_responses[ctx]
    ELSE IF mood = "playful" THEN playful_responses[ctx]
    ELSE encouraging_responses["general"]

\* Every value _get_fallback_suggestion(message, mood) can return, ctx being
\* the context of the message.
FallbackSuggestion(ctx, mood) == Range(FallbackResponses(ctx, mood))

DefaultMoods == <<"encouraging", "curious", "playful">>

\* moods after "if moods is None"
EffectiveMoods(arg) == IF arg.is_none THEN DefaultMoods ELSE arg.list

\* The answer of _generate_openrouter_chat_suggestion for a mood: the
\* model's stripped content, or "" after any failure of the request.
LLMChatReply(mood, answered) ==
    IF answered THEN "LLM reply (" \o mood \o ")" ELSE ""

\* The mutant of FirstMoods: the count is ignored.
FirstMoodsAll(ms, c) == ms

\* moods[:count], count >= 0
FirstMoods(ms, c) == Prefix(ms, c)

\* Every list generate_chat_suggestion can return: with an API key one entry
\* per mood of moods[:count], the reply or else a fallback, returned when not
\* empty; otherwise the fallback loop appends one entry per mood.
GenerateChatSuggestion(msg, c, ms, key, replies) ==
    LET first == FirstMoods(ms, c)
        ctx == Context(msg)
        fallback == [i \in 1..Len(first) |-> FallbackSuggestion(ctx, first[i])]
        entry == [i \in 1..Len(first) |->
                     IF replies[i] # "" THEN {replies[i]} ELSE fallback[i]]
        llm_pass == IF key THEN SeqsFrom(entry) ELSE {<<>>}
    IN  UNION {IF key /\ Len(s) > 0 THEN {s}
               ELSE {s \o f : f \in SeqsFrom(fallback)} :
               s \in llm_pass}

generate_chat_suggestion(msg, c, arg, answered) ==
    /\ pc = "idle"
    /\ pc' = "done"
    /\ op' = "generate_chat_suggestion"
    /\ message' = msg
    /\ count' = c
    /\ moods' = EffectiveMoods(arg)
    /\ raised' = ""
    /\ source' = ""
    /\ LET ms == EffectiveMoods(arg)
           first == FirstMoods(ms, c)
           replies == [i \in 1..Len(first) |->
                          LLMChatReply(first[i], openrouter_api_key /\ answered[i])]
       IN  /\ llm_replies' = replies
           /\ context' = IF \E i \in 1..Len(first) : replies[i] = ""
                         THEN Context(msg) ELSE ""
           /\ suggestions' \in
                 GenerateChatSuggestion(msg, c, ms, openrouter_api_key, replies)
    /\ UNCHANGED <<word_bank, funny_responses, openrouter_api_key, topic, words,
                   available_words, result, guess, correct_word, base_response,
                   response, request, http_status, llm_words, available_ref,
                   ai_words, fallback_words, selected_topic, selected_word>>

(***************************************************************************)
(* POST /generate-chat-suggestions                                         *)
(***************************************************************************)
\* The fields of the request and response schemas (models.py).
ChatSuggestionRequestFields == {"message", "currentWord"}

ChatSuggestionResponseFields == {"suggestion"}

\* The attributes of the request the handler reads, and the keyword it
\* builds the response with.
HandlerReads == {"message", "count", "moods"}

HandlerResponseKeywords == {"suggestions"}

\* The handler: an attribute the schema does not declare raises
\* AttributeError, a response built without the schema's required field
\* raises a validation error; "except Exception" turns both into HTTP 500.
http_generate_chat_suggestions(req, answered) ==
    /\ pc = "idle"
    /\ pc' = "done"
    /\ op' = "http_generate_chat_suggestions"
    /\ request' = req
    /\ IF ~(HandlerReads \subseteq DOMAIN req)
       THEN /\ raised' = "AttributeError"
            /\ http_status' = 500
            /\ UNCHANGED <<message, count, moods, llm_replies, context, suggestions>>
       ELSE /\ message' = req.message
            /\ count' = req.count
            /\ moods' = EffectiveMoods(req.moods)
            /\ llm_replies' = [i \in 1..Len(FirstMoods(moods', count')) |->
                   LLMChatReply(moods'[i], openrouter_api_key /\ answered[i])]
            /\ context' = Context(req.message)
            /\ suggestions' \in GenerateChatSuggestion(
                   req.message, req.count, moods', openrouter_api_key, llm_replies')
            /\ IF ChatSuggestionResponseFields \subseteq HandlerResponseKeywords
               THEN raised' = "" /\ http_status' = 200
               ELSE raised' = "ValidationError" /\ http_status' = 500
    /\ UNCHANGED <<word_bank, funny_responses, openrouter_api_key, topic, words,
                   available_words, result, source, guess, correct_word,
                   base_response, response, llm_words, available_ref, ai_words,
                   fallback_words, selected_topic, selected_word>>

(***************************************************************************)
(* POST /generate-words-by-topic                                           *)
(***************************************************************************)
\* target_count
TargetCount == 5

\* The request bodies (a dict): without a "topic" key, or with one.
WordsByTopicRequests == {<<>>} \cup {[k \in {"topic"} |-> t] : t \in Topics}

\* s[-n:] for n > 0
LastOf(s, n) == SubSeq(s, IF n < Len(s) THEN Len(s) - n + 1 ELSE 1, Len(s))

\* available_fallback[:target_count]: the slice is a list of its own.
SliceRef(ref) == ""

\* The list "fallback_words" is bound to before it is cut to target_count:
\* the first words of the topic's list (of "Objects" for an unknown topic),
\* extended by the padding of the handler.
ExtendedFallbackWords(bank, t) ==
    LET sliced ==
            IF t \in DOMAIN bank
            THEN LET available_fallback == bank[t]
                     first == Prefix(available_fallback, TargetCount)
                     remaining == TargetCount - Len(first)
                 IN  IF Len(first) < TargetCount
                     THEN first \o (IF Len(available_fallback) > TargetCount
                                    THEN LastOf(available_fallback, remaining)
                                    ELSE available_fallback)
                     ELSE first
            ELSE Prefix(DictGet(bank, "Objects", <<>>), TargetCount)
        RECURSIVE PadLoop(_)
        PadLoop(fw) ==
            IF Len(fw) < TargetCount /\ Len(fw) > 0
            THEN PadLoop(fw \o Prefix(fw, TargetCount - Len(fw)))
            ELSE fw
    IN  PadLoop(sliced)

\* The handler up to the return of generate_multiple_words, or to its own
\* return when no API key is configured.
http_generate_words_by_topic(req, failed, cleaned) ==
    /\ pc = "idle"
    /\ op' = "http_generate_words_by_topic"
    /\ LET t == DictGet(req, "topic", "Objects")
           extended == ExtendedFallbackWords(word_bank, t)
           bank == Store(word_bank, SliceRef(PoolRef(word_bank, t)), extended)
       IN  /\ word_bank' = bank
           /\ fallback_words' = Prefix(extended, TargetCount)
           /\ ai_words' = <<>>
           /\ IF openrouter_api_key
              THEN /\ StartMultipleWords(bank, t, TargetCount, failed, cleaned)
                   /\ http_status' = 0
              ELSE /\ pc' = "done"
                   /\ topic' = t
                   /\ http_status' = 200
                   /\ UNCHANGED <<count, raised, llm_words, source, result, words,
                                  available_words, available_ref>>
    /\ UNCHANGED <<funny_responses, openrouter_api_key, guess, correct_word,
                   base_response, response, message, moods, llm_replies, context,
                   suggestions, request, selected_topic, selected_word>>

\* The handler after generate_multiple_words returned or raised: an
\* exception is caught and leaves ai_words empty, a short list is padded
\* with fallback words, and the response is built.
words_by_topic_respond ==
    /\ pc = "done"
    /\ op = "http_generate_words_by_topic"
    /\ http_status = 0
    /\ ai_words' =
          IF raised # "" THEN <<>>
          ELSE Prefix(IF Len(result) < TargetCount
                      THEN result \o Prefix(fallback_words, TargetCount - Len(result))
                      ELSE result,
                      TargetCount)
    /\ http_status' = 200
    /\ UNCHANGED <<word_bank, funny_responses, openrouter_api_key, pc, op, topic,
                   count, words, available_words, result, source, raised, guess,
                   correct_word, base_response, response, message, moods,
                   llm_replies, context, suggestions, request, llm_words,
                   available_ref, fallback_words, selected_topic, selected_word>>

\* The caller takes the outcome; the next call starts from fresh locals.
Return ==
    /\ pc = "done"
    /\ op = "http_generate_words_by_topic" => http_status # 0
    /\ pc' = "idle"
    /\ op' = "none"
    /\ topic' = ""
    /\ count' = 0
    /\ words' = <<>>
    /\ available_words' = <<>>
    /\ result' = <<>>
    /\ source' = ""
    /\ raised' = ""
    /\ guess' = ""
    /\ correct_word' = ""
    /\ base_response' = ""
    /\ response' = ""
    /\ message' = ""
    /\ moods' = <<>>
    /\ llm_replies' = <<>>
    /\ context' = ""
    /\ suggestions' = <<>>
    /\ request' = NoRequest
    /\ http_status' = 0
    /\ llm_words' = <<>>
    /\ available_ref' = ""
    /\ ai_words' = <<>>
    /\ fallback_words' = <<>>
    /\ selected_topic' = ""
    /\ selected_word' = ""
    /\ UNCHANGED <<word_bank, funny_responses, openrouter_api_key>>

Next ==
    \/ \E t \in Topics, c \in Counts, failed \in BOOLEAN, cleaned \in LLMWordLists :
          generate_multiple_words(t, c, failed, cleaned)
    \/ CycleStep
    \/ \E t \in TopicArgs, failed \in BOOLEAN, content \in LLMWordContents :
          generate_word_suggestion(t, failed, content)
    \/ \E g \in Guesses, cw \in CorrectWords, reply \in LLMFunnyReplies,
          i \in 1..Len(funny_responses) :
          generate_funny_response(g, cw, reply, i)
    \/ \E msg \in Messages, c \in Counts, arg \in MoodsArgs,
          answered \in [1..Len(DefaultMoods) -> BOOLEAN] :
          generate_chat_suggestion(msg, c, arg, answered)
    \/ \E req \in ChatSuggestionRequests,
          answered \in [1..Len(DefaultMoods) -> BOOLEAN] :
          http_generate_chat_suggestions(req, answered)
    \/ \E req \in WordsByTopicRequests, failed \in BOOLEAN,
          cleaned \in LLMWordLists :
          http_generate_words_by_topic(req, failed, cleaned)
    \/ words_by_topic_respond
    \/ Return

Spec == Init /\ [][Next]_vars

\* The while-loop of a call in progress keeps running.
FairSpec == Spec /\ WF_vars(CycleStep)
(***************************************************************************)
(* Properties.                                                             *)
(***************************************************************************)
\* A generate_multiple_words call that took the word-bank path.
WordBankPath == op = "generate_multiple_words" /\ source = "fallback"

\* A generate_funny_response call that returned a composed template.
FunnyFallbackReturned ==
    op = "generate_funny_response" /\ pc = "done" /\ source = "fallback"

\* A generate_chat_suggestion call that returned.
ChatReturned == op = "generate_chat_suggestion" /\ pc = "done"

RecognizedMoods == {"encouraging", "curious", "playful"}

NoDuplicates(s) == \A i, j \in 1..Len(s) : i # j => s[i] # s[j]

\* C1: when count > len(pool) > 0 the word-bank path of
\* generate_multiple_words terminates and returns exactly count words (a
\* word repeated only after every word of the pool has appeared once).
\* Stated of the loop: once entered with a non-empty pool, the call
\* eventually returns count words.
C1_CyclingReturnsCount ==
    (WordBankPath /\ pc = "cycle" /\ Len(words) > 0)
        ~> (pc = "done" /\ raised = "" /\ Len(result) = count)

\* C2: for a topic of the bank and 0 <= count <= len(word_bank[topic]) the
\* word-bank path returns (without entering the loop or raising) exactly
\* count pairwise distinct words, each a member of word_bank[topic].
C2_SampleDistinctMembers ==
    (WordBankPath /\ topic \in DOMAIN word_bank /\ count <= Len(word_bank[topic]))
        => /\ pc = "done"
           /\ raised = ""
           /\ Len(result) = count
           /\ NoDuplicates(result)
           /\ \A i \in 1..Len(result) : result[i] \in Range(word_bank[topic])

\* C2 witness: a sample of two words of the requested topic was returned.
C2_Witness ==
    /\ WordBankPath
    /\ pc = "done"
    /\ topic = "Animals"
    /\ count = 2
    /\ Len(word_bank[topic]) >= 2
    /\ Len(result) = 2

C4_UnknownMoodAsEncouraging ==
    ChatReturned =>
        \A i \in 1..Len(suggestions) :
            (moods[i] \notin RecognizedMoods /\ llm_replies[i] = "")
                => suggestions[i] \in Range(encouraging_responses[Context(message)])

\* C4 as amended: for a mood outside the recognised ones the fallback
\* suggestion is drawn from the encouraging list of the "general" context,
\* whatever the context of the message is.
C4_UnknownMoodEncouragingGeneral ==
    ChatReturned =>
        \A i \in 1..Len(suggestions) :
            (moods[i] \notin RecognizedMoods /\ llm_replies[i] = "")
                => suggestions[i] \in Range(encouraging_responses["general"])

\* C4 witness: a fallback suggestion for the mood "sarcastic" on a message
\* whose context is drawing_progress.
C4_Witness ==
    /\ ChatReturned
    /\ message = "let's draw a sketch"
    /\ Len(suggestions) = 2
    /\ moods[2] = "sarcastic"
    /\ llm_replies[2] = ""
    /\ suggestions[2] = "Great effort!"

\* C5: the string the fallback path of generate_funny_response returns
\* never contains correct_word as a case-insensitive substring.
C5_FunnyNeverRevealsWord ==
    FunnyFallbackReturned => ~Contains(lower(correct_word), lower(response))

\* The response table of the selector: a mood that is not recognised is
\* treated as encouraging.
MoodResponseTable(mood, ctx) ==
    IF mood = "curious" THEN curious_responses[ctx]
    ELSE IF mood = "playful" THEN playful_responses[ctx]
    ELSE encouraging_responses[ctx]

\* C6 as claimed: generate_chat_suggestion returns min(count, len(moods))
\* entries, entry i being the LLM response obtained for moods[i] or a
\* fallback drawn from the table of (moods[i], context of the message).
C6_ChatSuggestionsPerMood ==
    ChatReturned =>
        /\ raised = ""
        /\ Len(suggestions) = Min(count, Len(moods))
        /\ \A i \in 1..Len(suggestions) :
              \/ /\ openrouter_api_key
                 /\ llm_replies[i] # ""
                 /\ suggestions[i] = llm_replies[i]
              \/ suggestions[i] \in Range(MoodResponseTable(moods[i], Context(message)))

\* C6 as amended: the same, except that the fallback for a mood that is not
\* one of encouraging, curious, playful is drawn from the encouraging list
\* of the "general" context.
C6_ChatSuggestionsPerRecognizedMood ==
    ChatReturned =>
        /\ raised = ""
        /\ Len(suggestions) = Min(count, Len(moods))
        /\ \A i \in 1..Len(suggestions) :
              \/ /\ openrouter_api_key
                 /\ llm_replies[i] # ""
                 /\ suggestions[i] = llm_replies[i]
              \/ /\ moods[i] \in RecognizedMoods
                 /\ suggestions[i] \in Range(MoodResponseTable(moods[i], Context(message)))
              \/ /\ moods[i] \notin RecognizedMoods
                 /\ suggestions[i] \in Range(encouraging_responses["general"])

\* C6 witness: with an API key, the first mood answered by the LLM and the
\* second by the fallback of (curious, drawing_progress), count cutting the
\* default list of three moods to two.
C6_Witness ==
    /\ ChatReturned
    /\ openrouter_api_key
    /\ message = "draw something"
    /\ moods = DefaultMoods
    /\ count = 2
    /\ Len(suggestions) = 2
    /\ suggestions[1] = llm_replies[1]
    /\ llm_replies[1] # ""
    /\ suggestions[2] = "What could that be?"

\* C7: the fallback of generate_funny_response is one base template
\* followed by exactly one outcome in priority order: the long-word suffix
\* if len(guess) > 10, else the one-letter suffix if len(guess) = 1, else
\* the overlap suffix if the lowercased guess is a substring of the
\* lowercased correct word, else nothing.
C7_FunnySuffixPriority ==
    FunnyFallbackReturned =>
        LET long == Len(guess) > 10
            one == Len(guess) = 1
            overlap == Contains(lower(guess), lower(correct_word))
        IN  /\ InList(base_response, funny_responses)
            /\ long => response = base_response \o " That's quite a long word you're thinking of!"
            /\ (~long /\ one) =>
                  response = base_response \o " Just one letter? Let's think bigger!"
            /\ (~long /\ ~one /\ overlap) =>
                  response = base_response \o " You've got some letters right!"
            /\ (~long /\ ~one /\ ~overlap) => response = base_response

\* C7 witness: a guess of eleven letters that is also a substring of the
\* correct word got the long-word suffix only.
C7_Witness ==
    /\ FunnyFallbackReturned
    /\ guess = "elephantine"
    /\ correct_word = "Elephantine"
    /\ response = "Close! But not quite there yet! That's quite a long word you're thinking of!"

\* C8: the context is determined case-insensitively, first match wins: a
\* message with a drawing keyword is drawing_progress even when it has a
\* guessing keyword too; otherwise one with a guessing keyword is guessing;
\* otherwise general.
C8_ContextFirstMatchWins ==
    (op = "generate_chat_suggestion" /\ context # "") =>
        LET m == lower(message)
            drawing == \E k \in {"draw", "drawing", "sketch", "line", "shape"} :
                          Contains(k, m)
            guessing == \E k \in {"guess", "think", "looks like", "is it", "what is"} :
                           Contains(k, m)
        IN  /\ drawing => context = "drawing_progress"
            /\ (~drawing /\ guessing) => context = "guessing"
            /\ (~drawing /\ ~guessing) => context = "general"
            /\ message = "let's draw a sketch" => context = "drawing_progress"
            /\ message = "what is this, I think it's..." => context = "guessing"
            /\ message = "hello there" => context = "general"
            /\ message = "I GUESS it is a Line" => context = "drawing_progress"
            /\ message = "Looks Like a cat" => context = "guessing"

\* C8 witness: a message with a capitalised drawing keyword and a
\* capitalised guessing keyword was classified drawing_progress.
C8_Witness ==
    /\ ChatReturned
    /\ message = "I GUESS it is a Line"
    /\ context = "drawing_progress"

\* C9: for a topic that is no key of the bank and every count, the possible
\* outcomes of the word-bank path are those of the topic "Objects": the
\* same samples, or the same entry into the loop, whose steps read only the
\* pool, the working copy, the result and the count.
C9_UnknownTopicAsObjects ==
    /\ \A t \in Topics \ DOMAIN word_bank, c \in Counts :
          FallbackStart(word_bank, t, c) = FallbackStart(word_bank, "Objects", c)
    /\ (WordBankPath /\ topic \notin DOMAIN word_bank /\ pc = "done" /\ raised = "")
          => \E st \in FallbackStart(word_bank, "Objects", count) :
                /\ st.words = words
                /\ st.pc = "done" => st.result = result

\* C9 witness: a call with an unknown topic returned two words of "Objects".
C9_Witness ==
    /\ WordBankPath
    /\ pc = "done"
    /\ topic = "Vehicles"
    /\ "Objects" \in DOMAIN word_bank
    /\ count = 2
    /\ Len(result) = 2
    /\ \A i \in 1..2 : result[i] \in Range(word_bank["Objects"])

\* C10: for every request the ChatSuggestionRequest schema accepts, the
\* /generate-chat-suggestions handler completes without an error and
\* answers with the suggestions (not with HTTP 500).
C10_HandlerAnswersSuggestions ==
    (op = "http_generate_chat_suggestions" /\ pc = "done")
        => (http_status = 200 /\ raised = "")
\* C11: whether or not an API key is configured, a successful
\* /generate-words-by-topic response has exactly 5 entries in "words" and
\* exactly 5 in "fallbackWords", provided the resolved bank list is not empty.
C11_FiveWordsAndFiveFallbackWords ==
    (/\ op = "http_generate_words_by_topic"
     /\ pc = "done"
     /\ http_status = 200
     /\ Len(ResolvePool(word_bank, topic)) > 0)
        => (Len(ai_words) = 5 /\ Len(fallback_words) = 5)
\* A generate_word_suggestion call that returned from the word-bank path.
WordSuggestionFallbackReturned ==
    /\ op = "generate_word_suggestion"
    /\ pc = "done"
    /\ source = "fallback"
    /\ raised = ""

\* C12 as claimed: on the word-bank path of generate_word_suggestion, an
\* omitted topic gives a key of the bank and a word of that key's list, and
\* a topic that is no key of the bank gives a word of the "Objects" list
\* (stated for the banks that have a non-empty "Objects" list).
C12_UnknownTopicWordFromObjects ==
    WordSuggestionFallbackReturned =>
        /\ topic = NoneStr =>
              /\ selected_topic \in DOMAIN word_bank
              /\ selected_word \in Range(word_bank[selected_topic])
        /\ (/\ topic # NoneStr
            /\ topic \notin DOMAIN word_bank
            /\ "Objects" \in DOMAIN word_bank
            /\ Len(DictGet(word_bank, "Objects", <<>>)) > 0) =>
              selected_word \in Range(DictGet(word_bank, "Objects", <<>>))

\* C12 as amended: an omitted topic and a topic that is no key of the bank
\* both give a key of the bank, chosen at random, and a word of that key's
\* list.
C12_UnknownTopicWordFromRandomTopic ==
    WordSuggestionFallbackReturned =>
        /\ topic = NoneStr =>
              /\ selected_topic \in DOMAIN word_bank
              /\ selected_word \in Range(word_bank[selected_topic])
        /\ (topic # NoneStr /\ topic \notin DOMAIN word_bank) =>
              /\ selected_topic \in DOMAIN word_bank
              /\ selected_word \in Range(word_bank[selected_topic])

\* C12 witness: a topic that is no key of the bank, although the bank has an
\* "Objects" list, got the topic "Animals" and one of its words.
C12_Witness ==
    /\ WordSuggestionFallbackReturned
    /\ topic = "Vehicles"
    /\ "Objects" \in DOMAIN word_bank
    /\ Len(word_bank["Objects"]) > 0
    /\ selected_topic = "Animals"
    /\ selected_word = "cat"
C14_ReturnsCountWordsFromLLMOrBank ==
    (/\ op = "generate_multiple_words"
     /\ pc = "done"
     /\ count > 0
     /\ count <= Len(ResolvePool(word_bank, topic)))
    => /\ raised = ""
       /\ Len(result) = count
       /\ source \in {"llm", "fallback"}
       /\ (source = "llm") <=> (/\ openrouter_api_key
                                /\ Len(llm_words) > 0
                                /\ Len(llm_words) = count)
       /\ (source = "llm") => (result = llm_words)
       /\ (source = "fallback") =>
              /\ NoDuplicates(result)
              /\ Range(result) \subseteq Range(ResolvePool(word_bank, topic))

\* C14 witness: a key is set, the LLM call came back empty, and the call
\* answered count words from the word bank.
C14_Witness ==
    /\ op = "generate_multiple_words"
    /\ pc = "done"
    /\ openrouter_api_key
    /\ llm_words = <<>>
    /\ source = "fallback"
    /\ count = 2
    /\ count <= Len(ResolvePool(word_bank, topic))
    /\ Len(result) = 2
====
